---- MODULE Spec2Model ----
(***************************************************************************)
(* Model of the bootloader's descriptor-table builder                      *)
(* (src/shared/src/structures/gdt.rs) and of the BIOS bootstrap sequence   *)
(* (src/bin/bios.rs).                                                      *)
(*                                                                         *)
(* A u64 is modelled as the set of the positions of its 1 bits, a subset   *)
(* of 0..63: TLC's integers are 32 bits wide, and the descriptors and the  *)
(* physical addresses of the program are not.  Arithmetic on these sets is *)
(* binary arithmetic with carries, so the width of every value is kept.    *)
(***************************************************************************)
EXTENDS Integers, Sequences, FiniteSets, TLC

VARIABLES
    \* ---- GlobalDescriptorTable (gdt.rs:5-8) and the caller's view of add_entry
    table,          \* [0..7 -> u64]
    next_free,      \* usize
    gdt_calls,      \* the add_entry calls made so far: <<[entry, returned, index]>>
    gdt_panic,      \* the message add_entry panicked with, or NoValue
    \* ---- the Descriptor built last by one of the builders (gdt.rs:120-207)
    desc_kind,      \* which builder ran, or NoValue
    desc_arg,       \* tss_segment's pointer as u64, {} for the other builders
    desc,           \* the Descriptor's u64
    \* ---- bootloader_main (bios.rs:59-135) and the panic handler (bios.rs:227-238)
    pc,                 \* the statement bootloader_main is at
    overflow_checks,    \* whether the build panics on integer overflow (else it wraps)
    memory_map,         \* e820_memory_map: <<[start_addr, len, kind]>>
    kernel_start,       \* PhysAddr
    kernel_size,        \* u64
    max_phys_addr,      \* u64
    first_free,         \* the frame the allocator was constructed with
    next_frame,         \* the allocator's cursor
    allocated,          \* the frames allocate_frame has handed out, in order
    tables,             \* the entries of the loader's hierarchy that point to a
                        \* next-level table: <<p4 index>> and <<p4 index, p3 index>>
    mapped,             \* the 2 MiB mappings the loop installed, in order
    range_start,        \* the PhysFrameRangeInclusive the loop iterates: start
    range_end,          \*   and end
    table_writes,       \* the page-table frames written through the zero-offset view
    logger_set,         \* whether init_logger has installed the logger
    kernel_level_4_frame,
    rsdp_scan,          \* what Rsdp::search_for_on_bios found
    rsdp_addr,          \* SystemInfo.rsdp_addr
    panic_msg           \* the message of the panic, or NoValue

gdt_vars == <<table, next_free, gdt_calls, gdt_panic>>

desc_vars == <<desc_kind, desc_arg, desc>>

boot_vars == <<pc, overflow_checks, memory_map, kernel_start, kernel_size, max_phys_addr,
               first_free, next_frame, allocated, tables, mapped, range_start, range_end,
               table_writes, logger_set, kernel_level_4_frame, rsdp_scan, rsdp_addr,
               panic_msg>>

vars == <<gdt_vars, desc_vars, boot_vars>>

NoValue == "none"

\* ------------------------------------------------------------------ u64 as bit sets

WordBits == 0..63

\* The bits of a natural number below 2^31.
BitsOf(n) == {i \in 0..30 : (n \div (2 ^ i)) % 2 = 1}

SetMax(S) == CHOOSE x \in S : \A y \in S : y <= x

\* a < b for two numbers given as bit sets: the highest bit they differ in is b's.
Less(a, b) == a # b /\ SetMax({i \in 0..64 : (i \in a) # (i \in b)}) \in b

LessEq(a, b) == a = b \/ Less(a, b)

\* v << k, without dropping bits.
Shl(v, k) == {i \in 0..(64 + k) : (i - k) \in v}

RECURSIVE AddBits(_, _, _, _)
\* Binary addition from bit i up with carry c; bit 64 of the result is the carry out.
AddBits(a, b, i, c) ==
    IF i = 64
    THEN IF c THEN {64} ELSE {}
    ELSE LET n == (IF i \in a THEN 1 ELSE 0) + (IF i \in b THEN 1 ELSE 0)
                  + (IF c THEN 1 ELSE 0)
         IN  (IF n % 2 = 1 THEN {i} ELSE {}) \cup AddBits(a, b, i + 1, n >= 2)

\* The mathematical sum of two u64: a 65-bit number.
MathAdd(a, b) ==
    LET sum == AddBits(a, b, 0, FALSE)
    IN  {i \in 0..64 : i \in sum}

\* a + b modulo 2^64
WrapAdd(a, b) ==
    LET sum == AddBits(a, b, 0, FALSE)
    IN  {i \in WordBits : i \in sum}

\* a - b modulo 2^64
WrapSub(a, b) == WrapAdd(WrapAdd(a, {i \in WordBits : i \notin b}), {0})

\* bit_field: v.get_bits(lo..hi)
GetBits(v, lo, hi) == {i \in 0..(hi - lo - 1) : (i + lo) \in v}

\* bit_field: v.set_bits(lo..hi, x); x must fit in hi - lo bits (bit_field asserts it).
SetBits(v, lo, hi, x) ==
    {i \in WordBits : IF lo <= i /\ i < hi THEN (i - lo) \in x ELSE i \in v}

\* a | b
BitOr(a, b) == {i \in WordBits : i \in a \/ i \in b}

\* The | of the flags of a set.
FlagUnion(S) == {i \in WordBits : \E f \in S : i \in f}

\* bit_field: v.set_bit(b, true)
SetBit(v, b) == {i \in WordBits : i = b \/ i \in v}

\* ------------------------------------------------------------------ DescriptorFlags

ACCESSED == {40}
READABLE_WRITABLE == {41}
CONFORMING == {42}
EXECUTABLE == {43}
USER_SEGMENT == {44}
PRESENT == {47}
LONG_MODE == {53}
DPL_RING_3 == {45, 46}
AVAILABLE == {52}
SIZE == {54}
GRANULARITY == {55}

\* ------------------------------------------------------------------ Descriptor

null_descriptor == {}

with_flat_limit_NoHighLimit(d) ==
    BitOr(SetBits(d, 0, 16, BitsOf(65535)), GRANULARITY)

with_flat_limit(d) ==
    LET low == SetBits(d, 0, 16, BitsOf(65535))
        high == SetBit(SetBit(SetBit(SetBit(low, 48), 49), 50), 51)
    IN  BitOr(high, GRANULARITY)

kernel_code_segment ==
    with_flat_limit(FlagUnion({USER_SEGMENT, PRESENT, READABLE_WRITABLE, ACCESSED,
                               SIZE, EXECUTABLE}))

kernel_data_segment ==
    with_flat_limit(FlagUnion({USER_SEGMENT, PRESENT, READABLE_WRITABLE, ACCESSED, SIZE}))

user_data_segment ==
    with_flat_limit(FlagUnion({USER_SEGMENT, PRESENT, READABLE_WRITABLE, ACCESSED,
                               DPL_RING_3}))

user_code_segment ==
    with_flat_limit(FlagUnion({USER_SEGMENT, PRESENT, READABLE_WRITABLE, ACCESSED,
                               EXECUTABLE, DPL_RING_3}))

\* size_of::<TaskStateSegment>(): packed, 4 + 3 * 8 + 18 * 4 + 2 + 2 bytes.
TssSize == 104

tss_flags == FlagUnion({PRESENT, EXECUTABLE, ACCESSED, SIZE, DPL_RING_3})

tss_segment_WrongHighRange(ptr) ==
    LET base_low == SetBits(tss_flags, 16, 40, GetBits(ptr, 0, 24))
        base_high == SetBits(base_low, 56, 64, GetBits(ptr, 16, 24))
    IN  SetBits(base_high, 0, 16, GetBits(BitsOf(TssSize - 1), 0, 16))

tss_segment(ptr) ==
    LET base_low == SetBits(tss_flags, 16, 40, GetBits(ptr, 0, 24))
        base_high == SetBits(base_low, 56, 64, GetBits(ptr, 24, 32))
    IN  SetBits(base_high, 0, 16, GetBits(BitsOf(TssSize - 1), 0, 16))

\* ------------------------------------------------------------------ GlobalDescriptorTable

TableLen == 8

GdtNew == [t |-> [i \in 0..(TableLen - 1) |-> {}], nf |-> 1]

\* push(value): the new table and cursor and the index returned, or the panic.
push_OffByOne(t, nf, value) ==
    IF nf <= TableLen
    THEN [ok |-> TRUE, t |-> [i \in DOMAIN t |-> IF i = nf THEN value ELSE t[i]],
          nf |-> nf + 1, index |-> nf]
    ELSE [ok |-> FALSE, t |-> t, nf |-> nf, index |-> 0]

push_SlotBelow(t, nf, value) ==
    IF nf < TableLen
    THEN [ok |-> TRUE, t |-> [t EXCEPT ![nf - 1] = value], nf |-> nf + 1, index |-> nf]
    ELSE [ok |-> FALSE, t |-> t, nf |-> nf, index |-> 0]

push(t, nf, value) ==
    IF nf < TableLen
    THEN [ok |-> TRUE, t |-> [t EXCEPT ![nf] = value], nf |-> nf + 1, index |-> nf]
    ELSE [ok |-> FALSE, t |-> t, nf |-> nf, index |-> 0]

\* ------------------------------------------------------------------ results and panics

Ok(v) == [ok |-> TRUE, val |-> v, msg |-> NoValue]

Panic(m) == [ok |-> FALSE, val |-> {}, msg |-> m]

\* u64 + u64: a panic with overflow checks, the sum modulo 2^64 without.
U64Add(a, b, checks) ==
    IF 64 \in MathAdd(a, b) /\ checks
    THEN Panic("attempt to add with overflow")
    ELSE Ok(WrapAdd(a, b))

\* u64 - u64: a panic with overflow checks, the difference modulo 2^64 without.
U64Sub(a, b, checks) ==
    IF Less(a, b) /\ checks
    THEN Panic("attempt to subtract with overflow")
    ELSE Ok(WrapSub(a, b))

\* x86_64: PhysAddr::new panics on an address with any of bits 52..63 set.
PhysAddrNew(a) ==
    IF a \cap (52..63) = {} THEN Ok(a) ELSE Panic("invalid physical address")

\* x86_64: PhysAddr + u64 is PhysAddr::new(self.0 + rhs).
PhysAddrAdd(a, b, checks) ==
    LET sum == U64Add(a, b, checks)
    IN  IF sum.ok THEN PhysAddrNew(sum.val) ELSE sum

\* x86_64: PhysAddr - u64 is PhysAddr::new(self.0.checked_sub(rhs).unwrap()).
PhysAddrSub(a, b) ==
    IF Less(a, b) THEN Panic("called Option::unwrap() on a None value")
    ELSE PhysAddrNew(WrapSub(a, b))

\* x86_64: VirtAddr::new panics unless bits 47..63 are all equal.
VirtAddrNew(a) ==
    IF a \cap (47..63) = {} \/ (47..63) \subseteq a
    THEN Ok(a) ELSE Panic("invalid virtual address")

\* log2 of Size4KiB::SIZE and of Size2MiB::SIZE
Size4KiBShift == 12
Size2MiBShift == 21

\* PhysFrame::containing_address: the address aligned down to the frame size.
ContainingAddress(a, shift) == {i \in 0..64 : i >= shift /\ i \in a}

\* PhysFrame + u64: containing_address(start_address + rhs * SIZE), for rhs = 1.
FrameSucc(f, shift, checks) ==
    LET a == PhysAddrAdd(f, {shift}, checks)
    IN  IF a.ok THEN Ok(ContainingAddress(a.val, shift)) ELSE a

\* ------------------------------------------------------------------ the memory map

Usable == "usable"
Reserved == "reserved"

\* 1 MiB .. 1 GiB, usable: the memory a kernel loaded at 4 MiB lies in.
RegionLow == [start_addr |-> {20}, len |-> 20..29, kind |-> Usable]

\* 0 .. 2 GiB, usable.
Region2G == [start_addr |-> {}, len |-> {31}, kind |-> Usable]

\* 1 GiB + 2 MiB .. 1 GiB + 4 MiB, usable.
RegionHigh == [start_addr |-> {21, 30}, len |-> {21}, kind |-> Usable]

\* 4 GiB - 256 KiB .. 4 GiB, reserved: the ROM of the firmware below 4 GiB.
Region4G == [start_addr |-> 18..31, len |-> {18}, kind |-> Reserved]

\* 2^64 - 4 KiB .. 2^64, reserved: start_addr + len is 2^64.
RegionTop == [start_addr |-> 12..63, len |-> {12}, kind |-> Reserved]

RegionPool == {RegionLow, Region2G, RegionHigh, Region4G, RegionTop}

MaxRegions == 2

MemoryMaps == UNION {[1..n -> RegionPool] : n \in 0..MaxRegions}

\* The mathematical end of a region, start_addr + len.
RegionEnd(r) == MathAdd(r.start_addr, r.len)

RECURSIVE IterMax(_, _, _)
\* Iterator::max over sums[i..]: the last of the greatest elements.
IterMax(sums, i, best) ==
    IF i > Len(sums) THEN best
    ELSE IterMax(sums, i + 1, IF Less(sums[i], best) THEN best ELSE sums[i])

RECURSIVE IterMin(_, _, _)
IterMin(sums, i, best) ==
    IF i > Len(sums) THEN best
    ELSE IterMin(sums, i + 1, IF Less(best, sums[i]) THEN best ELSE sums[i])

compute_max_phys_addr_Min(map, checks) ==
    LET sums == [i \in 1..Len(map) |-> U64Add(map[i].start_addr, map[i].len, checks)]
    IN  IF \E i \in 1..Len(map) : ~sums[i].ok
        THEN sums[CHOOSE i \in 1..Len(map) :
                    ~sums[i].ok /\ \A j \in 1..(i - 1) : sums[j].ok]
        ELSE IF Len(map) = 0 THEN Panic("no physical memory regions found")
        ELSE Ok(IterMin([i \in 1..Len(map) |-> sums[i].val], 2, sums[1].val))

\* e820_memory_map.iter().map(|r| r.start_addr + r.len).max().expect(...)
compute_max_phys_addr(map, checks) ==
    LET sums == [i \in 1..Len(map) |-> U64Add(map[i].start_addr, map[i].len, checks)]
    IN  IF \E i \in 1..Len(map) : ~sums[i].ok
        THEN sums[CHOOSE i \in 1..Len(map) :
                    ~sums[i].ok /\ \A j \in 1..(i - 1) : sums[j].ok]
        ELSE IF Len(map) = 0 THEN Panic("no physical memory regions found")
        ELSE Ok(IterMax([i \in 1..Len(map) |-> sums[i].val], 2, sums[1].val))

\* ------------------------------------------------------------------ the frame allocator

new_starting_at_KernelEnd(start, size, checks) ==
    LET end == PhysAddrAdd(start, size, checks)
        last == IF end.ok THEN PhysAddrSub(end.val, {0}) ELSE end
    IN  IF ~last.ok THEN last
        ELSE Ok(ContainingAddress(last.val, Size4KiBShift))

\* kernel_end = containing_address(kernel_start + kernel_size - 1u64);
\* next_free = kernel_end + 1
new_starting_at(start, size, checks) ==
    LET end == PhysAddrAdd(start, size, checks)
        last == IF end.ok THEN PhysAddrSub(end.val, {0}) ELSE end
    IN  IF ~last.ok THEN last
        ELSE FrameSucc(ContainingAddress(last.val, Size4KiBShift), Size4KiBShift, checks)

\* The first 4 KiB frame at or after the cursor that lies wholly in region r, if any.
FrameIn(r, cursor) ==
    LET lo == r.start_addr
        up == IF lo \cap (0..(Size4KiBShift - 1)) = {} THEN lo
              ELSE MathAdd(ContainingAddress(lo, Size4KiBShift), {Size4KiBShift})
        f == IF Less(cursor, up) THEN up ELSE cursor
    IN  IF r.kind = Usable /\ LessEq(MathAdd(f, {Size4KiBShift}), RegionEnd(r))
           /\ f \subseteq 0..51
        THEN {f} ELSE {}

\* allocate_frame: the next unused frame of a usable region at or after the cursor;
\* the empty set when no region has one.
AllocateFrame(map, cursor) == UNION {FrameIn(map[i], cursor) : i \in 1..Len(map)}

\* ------------------------------------------------------------------ the loader's page tables

\* 4096 * 512 * 512: the first gigabyte is identity-mapped by the entry environment.
FirstGiB == {30}

PassedFlags == {"PRESENT", "WRITABLE"}

\* map_to of a 2 MiB page sets the entry to flags | HUGE_PAGE.
EntryFlags == PassedFlags \cup {"HUGE_PAGE"}

\* Whether the table the slot names exists in the hierarchy.
HasTable(ts, slot) == \E i \in 1..Len(ts) : ts[i] = slot

\* Whether the loader's hierarchy maps the address: the first gigabyte, or a
\* 2 MiB mapping of the sequence maps.
IsMapped(addr, maps) ==
    \/ Less(addr, FirstGiB)
    \/ LET page == ContainingAddress(addr, Size2MiBShift)
       IN  \E i \in 1..Len(maps) : maps[i].page = page

\* The allocator and the hierarchy, as identity_map changes them.
Machine == [next |-> next_frame, allocated |-> allocated, tables |-> tables,
            writes |-> table_writes, mapped |-> mapped]

\* x86_64 create_next_table: an unused entry gets a frame of the allocator, is set
\* to it, and the frame is zeroed through the physical-memory offset (0 here).
create_next_table(m, slot) ==
    IF HasTable(m.tables, slot) THEN {[status |-> "ok", m |-> m]}
    ELSE LET frames == AllocateFrame(memory_map, m.next)
         IN  IF frames = {} THEN {[status |-> "FrameAllocationFailed", m |-> m]}
             ELSE {LET covered == IsMapped(f, m.mapped)
                   IN  [status |-> IF covered THEN "ok" ELSE "fault",
                        m |-> [next |-> MathAdd(f, {Size4KiBShift}),
                               allocated |-> Append(m.allocated, f),
                               tables |-> Append(m.tables, slot),
                               writes |-> Append(m.writes,
                                                 [frame |-> f, covered |-> covered]),
                               mapped |-> m.mapped]]
                   : f \in frames}

\* x86_64 identity_map of a 2 MiB frame: the page at the frame's own address, the
\* P3 and P2 tables created where missing, PageAlreadyMapped when the P2 entry is
\* in use, else the entry set to the frame with the flags and HUGE_PAGE.
identity_map(frame, m) ==
    LET p4 == <<GetBits(frame, 39, 48)>>
        p3 == <<GetBits(frame, 39, 48), GetBits(frame, 30, 39)>>
        after4 == create_next_table(m, p4)
        after3 == UNION {IF o.status = "ok" THEN create_next_table(o.m, p3) ELSE {o}
                         : o \in after4}
        entry == [frame |-> frame, page |-> VirtAddrNew(frame).val, flags |-> EntryFlags]
    IN  {IF o.status # "ok" THEN o
         ELSE IF IsMapped(frame, o.m.mapped)
         THEN [status |-> "PageAlreadyMapped", m |-> o.m]
         ELSE [status |-> "ok", m |-> [o.m EXCEPT !.mapped = Append(@, entry)]]
         : o \in after3}

\* ------------------------------------------------------------------ bootloader_main

\* stage_4 passes kernel_start = 0x400000.
KernelStart == {22}

\* _kernel_size: 4097 bytes, and a kernel that ends at 1 GiB.
KernelSizes == {{0, 12}, 22..29}

\* framebuffer_addr = 0xfd000000 and framebuffer_size = 1024 * 768 * 3
FramebufferAddr == {24, 26, 27, 28, 29, 30, 31}
FramebufferSize == BitsOf(1024 * 768 * 3)

\* What Rsdp::search_for_on_bios may report: nothing, or a mapping that starts in
\* the EBDA or in the BIOS area 0xE0000..0xFFFFF.
RsdpScans == {[found |-> FALSE, physical_start |-> {}],
              [found |-> TRUE, physical_start |-> {17, 18, 19}],
              [found |-> TRUE, physical_start |-> {10, 11, 12, 13, 14, 15, 16, 19}]}

Absent == [some |-> FALSE, addr |-> {}]

BootZero ==
    /\ max_phys_addr = {}
    /\ first_free = {}
    /\ next_frame = {}
    /\ allocated = <<>>
    /\ mapped = <<>>
    /\ range_start = {}
    /\ range_end = {}
    /\ table_writes = <<>>
    /\ logger_set = FALSE
    /\ kernel_level_4_frame = {}
    /\ rsdp_scan = [found |-> FALSE, physical_start |-> {}]
    /\ rsdp_addr = Absent
    /\ panic_msg = NoValue

\* bootloader_main not started: the state of the boot variables in the
\* specifications of the descriptor table alone.
BootIdle ==
    /\ pc = "idle"
    /\ overflow_checks = FALSE
    /\ memory_map = <<>>
    /\ kernel_start = {}
    /\ kernel_size = {}
    /\ tables = <<>>
    /\ BootZero

\* Entry of bootloader_main: the hierarchy of the entry environment maps the first
\* gigabyte through P4 entry 0 and P3 entry 0.
BootInit ==
    /\ pc = "max_phys_addr"
    /\ overflow_checks \in BOOLEAN
    /\ memory_map \in MemoryMaps
    /\ kernel_start = KernelStart
    /\ kernel_size \in KernelSizes
    /\ tables = << <<{}>>, <<{}, {}>> >>
    /\ BootZero

\* A panic: unwinding is off, the panic handler runs next.
Raise(msg) == pc' = "panic" /\ panic_msg' = msg

\* bios.rs:73-77
ComputeMaxPhysAddr ==
    /\ pc = "max_phys_addr"
    /\ LET r == compute_max_phys_addr(memory_map, overflow_checks)
       IN  IF r.ok
           THEN /\ max_phys_addr' = r.val
                /\ pc' = "frame_allocator"
                /\ UNCHANGED panic_msg
           ELSE Raise(r.msg) /\ UNCHANGED max_phys_addr
    /\ UNCHANGED <<gdt_vars, desc_vars, overflow_checks, memory_map, kernel_start,
                   kernel_size, first_free, next_frame, allocated, tables, mapped,
                   range_start, range_end, table_writes, logger_set,
                   kernel_level_4_frame, rsdp_scan, rsdp_addr>>

\* bios.rs:79-83
NewFrameAllocator ==
    /\ pc = "frame_allocator"
    /\ LET r == new_starting_at(kernel_start, kernel_size, overflow_checks)
       IN  IF r.ok
           THEN /\ first_free' = r.val
                /\ next_frame' = r.val
                /\ pc' = "range"
                /\ UNCHANGED panic_msg
           ELSE Raise(r.msg) /\ UNCHANGED <<first_free, next_frame>>
    /\ UNCHANGED <<gdt_vars, desc_vars, overflow_checks, memory_map, kernel_start,
                   kernel_size, max_phys_addr, allocated, tables, mapped,
                   range_start, range_end, table_writes, logger_set,
                   kernel_level_4_frame, rsdp_scan, rsdp_addr>>

end_frame_OfMax(max, checks) ==
    LET addr == PhysAddrNew(max)
    IN  IF addr.ok THEN Ok(ContainingAddress(addr.val, Size2MiBShift)) ELSE addr

\* end_frame = containing_address(PhysAddr::new(max_phys_addr - 1))
end_frame(max, checks) ==
    LET last == U64Sub(max, {0}, checks)
        addr == IF last.ok THEN PhysAddrNew(last.val) ELSE last
    IN  IF addr.ok THEN Ok(ContainingAddress(addr.val, Size2MiBShift)) ELSE addr

\* bios.rs:94-98: the range the loop iterates
FrameRange ==
    /\ pc = "range"
    /\ LET r == end_frame(max_phys_addr, overflow_checks)
       IN  IF r.ok
           THEN /\ range_start' = ContainingAddress(FirstGiB, Size2MiBShift)
                /\ range_end' = r.val
                /\ pc' = "identity_map"
                /\ UNCHANGED panic_msg
           ELSE Raise(r.msg) /\ UNCHANGED <<range_start, range_end>>
    /\ UNCHANGED <<gdt_vars, desc_vars, overflow_checks, memory_map, kernel_start,
                   kernel_size, max_phys_addr, first_free, next_frame, allocated,
                   tables, mapped, table_writes, logger_set, kernel_level_4_frame,
                   rsdp_scan, rsdp_addr>>

\* The loop where it stands: the iterator of the range, the allocator and the
\* hierarchy, and whether the loop still runs.
LoopEntry == [start |-> range_start, status |-> "run", m |-> Machine]

\* bios.rs:98-109: one pass of the for loop. PhysFrameRangeInclusive::next ends the
\* loop when start > end and else advances start before the body runs;
\* identity_map(...).unwrap() panics on an error; a table frame that the hierarchy
\* does not map cannot be written: the write faults.
loop_step(s, end, checks) ==
    IF s.status # "run" THEN {s}
    ELSE IF Less(end, s.start) THEN {[s EXCEPT !.status = "done"]}
    ELSE LET succ == FrameSucc(s.start, Size2MiBShift, checks)
             page == VirtAddrNew(s.start)
         IN  IF ~succ.ok THEN {[s EXCEPT !.status = succ.msg]}
             ELSE IF ~page.ok THEN {[s EXCEPT !.start = succ.val, !.status = page.msg]}
             ELSE {[start |-> succ.val,
                    status |-> IF o.status = "ok" THEN "run" ELSE o.status,
                    m |-> o.m] : o \in identity_map(s.start, s.m)}

RECURSIVE NatOf(_, _)
\* The number whose bits from i up are those of b, for a number below 2^31.
NatOf(b, i) == IF i > 30 THEN 0 ELSE (IF i \in b THEN 2 ^ i ELSE 0) + NatOf(b, i + 1)

\* The number of frames of the inclusive range start..end.
FrameCount(start, end) ==
    IF Less(end, start) THEN 0
    ELSE NatOf(GetBits(WrapSub(end, start), Size2MiBShift, 52), 0) + 1

RECURSIVE loop_steps(_, _, _, _)
\* n passes of the loop from each of the states S, the first half then the second.
loop_steps(S, end, checks, n) ==
    IF n = 0 THEN S
    ELSE IF n = 1 THEN {t \in UNION {loop_step(s, end, checks) : s \in S} : TRUE}
    ELSE LET half == loop_steps(S, end, checks, n \div 2)
         IN  IF half = {} THEN {} ELSE loop_steps(half, end, checks, n - (n \div 2))

\* bios.rs:98-109: the for loop, run until the range is exhausted or a pass does
\* not return: a pass for each frame of the range and the pass that ends it.
IdentityMapLoop ==
    /\ pc = "identity_map"
    /\ \E o \in loop_steps({LoopEntry}, range_end, overflow_checks,
                           FrameCount(range_start, range_end) + 1) :
        /\ o.status # "run"
        /\ range_start' = o.start
        /\ next_frame' = o.m.next
        /\ allocated' = o.m.allocated
        /\ tables' = o.m.tables
        /\ table_writes' = o.m.writes
        /\ mapped' = o.m.mapped
        /\ IF o.status = "done"
           THEN pc' = "init_logger" /\ UNCHANGED panic_msg
           ELSE IF o.status = "fault"
           THEN pc' = "fault" /\ UNCHANGED panic_msg
           ELSE Raise(o.status)
    /\ UNCHANGED <<gdt_vars, desc_vars, overflow_checks, memory_map, kernel_start,
                   kernel_size, max_phys_addr, first_free, range_end, logger_set,
                   kernel_level_4_frame, rsdp_scan, rsdp_addr>>

\* The first and the last byte of the framebuffer are mapped: the buffer, 2.25 MiB
\* long, spans two adjacent 2 MiB frames.
FramebufferMapped ==
    /\ IsMapped(FramebufferAddr, mapped)
    /\ IsMapped(WrapSub(WrapAdd(FramebufferAddr, FramebufferSize), {0}), mapped)

\* bios.rs:112-114 and 137-153: init_logger fills the framebuffer through its
\* physical address, then installs the logger.
InitLogger ==
    /\ pc = "init_logger"
    /\ IF FramebufferMapped
       THEN logger_set' = TRUE /\ pc' = "create_page_tables"
       ELSE pc' = "fault" /\ UNCHANGED logger_set
    /\ UNCHANGED <<gdt_vars, desc_vars, overflow_checks, memory_map, kernel_start,
                   kernel_size, max_phys_addr, first_free, next_frame, allocated,
                   tables, mapped, range_start, range_end, table_writes,
                   kernel_level_4_frame, rsdp_scan, rsdp_addr, panic_msg>>

\* bios.rs:116 and 156-191: a frame for the new level 4 table of the kernel, zeroed
\* through its physical address.
CreatePageTables ==
    /\ pc = "create_page_tables"
    /\ LET frames == AllocateFrame(memory_map, next_frame)
       IN  IF frames = {}
           THEN Raise("no unused frames")
                /\ UNCHANGED <<next_frame, allocated, table_writes, kernel_level_4_frame>>
           ELSE \E f \in frames :
                /\ next_frame' = MathAdd(f, {Size4KiBShift})
                /\ allocated' = Append(allocated, f)
                /\ table_writes' = Append(table_writes,
                       [frame |-> f, covered |-> IsMapped(f, mapped)])
                /\ IF IsMapped(f, mapped)
                   THEN kernel_level_4_frame' = f /\ pc' = "detect_rsdp"
                   ELSE pc' = "fault" /\ UNCHANGED kernel_level_4_frame
                /\ UNCHANGED panic_msg
    /\ UNCHANGED <<gdt_vars, desc_vars, overflow_checks, memory_map, kernel_start,
                   kernel_size, max_phys_addr, first_free, tables, mapped,
                   range_start, range_end, logger_set, rsdp_scan, rsdp_addr>>

detect_rsdp_Unwrap(scan) ==
    IF scan.found
    THEN LET a == PhysAddrNew(scan.physical_start)
         IN  IF a.ok THEN Ok([some |-> TRUE, addr |-> a.val]) ELSE Panic(a.msg)
    ELSE Panic("called Result::unwrap() on an Err value")

\* search_for_on_bios(IdentityMapped).ok().map(|m| PhysAddr::new(m.physical_start as u64))
detect_rsdp(scan) ==
    IF scan.found
    THEN LET a == PhysAddrNew(scan.physical_start)
         IN  IF a.ok THEN Ok([some |-> TRUE, addr |-> a.val]) ELSE Panic(a.msg)
    ELSE Ok(Absent)

\* bios.rs:123-127
DetectRsdp ==
    /\ pc = "detect_rsdp"
    /\ \E scan \in RsdpScans :
        /\ rsdp_scan' = scan
        /\ LET r == detect_rsdp(scan)
           IN  IF r.ok
               THEN rsdp_addr' = r.val /\ pc' = "load_kernel" /\ UNCHANGED panic_msg
               ELSE Raise(r.msg) /\ UNCHANGED rsdp_addr
    /\ UNCHANGED <<gdt_vars, desc_vars, overflow_checks, memory_map, kernel_start,
                   kernel_size, max_phys_addr, first_free, next_frame, allocated,
                   tables, mapped, range_start, range_end, table_writes, logger_set,
                   kernel_level_4_frame>>

\* bios.rs:129-134: load_and_switch_to_kernel does not return
LoadAndSwitchToKernel ==
    /\ pc = "load_kernel"
    /\ pc' = "handoff"
    /\ UNCHANGED <<gdt_vars, desc_vars, overflow_checks, memory_map, kernel_start,
                   kernel_size, max_phys_addr, first_free, next_frame, allocated,
                   tables, mapped, range_start, range_end, table_writes, logger_set,
                   kernel_level_4_frame, rsdp_scan, rsdp_addr, panic_msg>>

\* bios.rs:227-238: the panic handler logs, then loops on cli; hlt
panic ==
    /\ pc = "panic"
    /\ pc' = "halt"
    /\ UNCHANGED <<gdt_vars, desc_vars, overflow_checks, memory_map, kernel_start,
                   kernel_size, max_phys_addr, first_free, next_frame, allocated,
                   tables, mapped, range_start, range_end, table_writes, logger_set,
                   kernel_level_4_frame, rsdp_scan, rsdp_addr, panic_msg>>

\* bootloader_main or the panic handler has a statement to execute.
Running == pc \in {"max_phys_addr", "frame_allocator", "range", "identity_map",
                   "init_logger", "create_page_tables", "detect_rsdp", "load_kernel",
                   "panic"}

BootNext ==
    \/ ComputeMaxPhysAddr
    \/ NewFrameAllocator
    \/ FrameRange
    \/ IdentityMapLoop
    \/ InitLogger
    \/ CreatePageTables
    \/ DetectRsdp
    \/ LoadAndSwitchToKernel
    \/ panic

\* ------------------------------------------------------------------ the allocator, applied

\* Kernel images that fit in the physical address space, an empty one and one at
\* address 0 among them; {52} is an image that does not fit.
AllocKernelStarts == {{}, {22}, {11, 22}, {30}}

AllocKernelSizes == {{}, {0}, 0..11, {12}, {0, 12}, {21}, 22..29, {52}}

MaxAllocs == 3

AllocInit ==
    /\ pc = "frame_allocator"
    /\ overflow_checks \in BOOLEAN
    /\ memory_map \in MemoryMaps
    /\ kernel_start \in AllocKernelStarts
    /\ kernel_size \in AllocKernelSizes
    /\ tables = <<>>
    /\ BootZero

\* allocate_frame, called by a user of the allocator that bootloader_main made
allocate_frame ==
    /\ pc = "range"
    /\ Len(allocated) < MaxAllocs
    /\ \E f \in AllocateFrame(memory_map, next_frame) :
        /\ next_frame' = MathAdd(f, {Size4KiBShift})
        /\ allocated' = Append(allocated, f)
    /\ UNCHANGED <<gdt_vars, desc_vars, pc, overflow_checks, memory_map, kernel_start,
                   kernel_size, max_phys_addr, first_free, tables, mapped,
                   range_start, range_end, table_writes, logger_set,
                   kernel_level_4_frame, rsdp_scan, rsdp_addr, panic_msg>>

AllocNext ==
    \/ NewFrameAllocator
    \/ allocate_frame
    \/ panic

\* ------------------------------------------------------------------ the descriptor table, applied

GdtFull == "GDT full"

\* The descriptors the callers of add_entry pass.
GdtEntries == {kernel_code_segment, user_data_segment, tss_segment(BitsOf(1193046))}

GdtInit ==
    /\ table = GdtNew.t
    /\ next_free = GdtNew.nf
    /\ gdt_calls = <<>>
    /\ gdt_panic = NoValue

\* add_entry(entry): push(entry.0), the index returned as u16; a panic does not return.
add_entry(entry) ==
    /\ gdt_panic = NoValue
    /\ LET r == push(table, next_free, entry)
       IN  /\ table' = r.t
           /\ next_free' = r.nf
           /\ gdt_calls' = Append(gdt_calls,
                  [entry |-> entry, returned |-> r.ok, index |-> r.index % 65536])
           /\ gdt_panic' = IF r.ok THEN NoValue ELSE GdtFull
    /\ UNCHANGED <<desc_vars, boot_vars>>

DescInit ==
    /\ desc_kind = NoValue
    /\ desc_arg = {}
    /\ desc = {}

GdtNext == \E entry \in GdtEntries : add_entry(entry)

Init == GdtInit /\ DescInit /\ BootIdle

SpecGdt == Init /\ [][GdtNext]_vars

\* ------------------------------------------------------------------ the builders, applied

\* The bits a TaskStateSegment pointer may have set, bit 32 among them: the pointer
\* is cast to u64 and only its bits 0..31 are packed.
TssPtrBits == {0, 15, 16, 23, 24, 31, 32}

Build(kind, arg, d) ==
    /\ desc_kind' = kind
    /\ desc_arg' = arg
    /\ desc' = d
    /\ UNCHANGED <<gdt_vars, boot_vars>>

BuildNull == Build("null_descriptor", {}, null_descriptor)

BuildKernelCode == Build("kernel_code_segment", {}, kernel_code_segment)

BuildKernelData == Build("kernel_data_segment", {}, kernel_data_segment)

BuildUserData == Build("user_data_segment", {}, user_data_segment)

BuildUserCode == Build("user_code_segment", {}, user_code_segment)

BuildTss == \E ptr \in SUBSET TssPtrBits : Build("tss_segment", ptr, tss_segment(ptr))

DescNext ==
    \/ BuildNull
    \/ BuildKernelCode
    \/ BuildKernelData
    \/ BuildUserData
    \/ BuildUserCode
    \/ BuildTss

SpecDesc == Init /\ [][DescNext]_vars

InitBoot == GdtInit /\ DescInit /\ BootInit

SpecBoot == InitBoot /\ [][BootNext]_vars

InitAlloc == GdtInit /\ DescInit /\ AllocInit

SpecAlloc == InitAlloc /\ [][AllocNext]_vars

\* ------------------------------------------------------------------ claims

\* C1: from GlobalDescriptorTable::new(), the first seven add_entry calls return
\* 1, 2, ..., 7 in that order and each stores its descriptor in the slot it
\* returns; the eighth call panics with "GDT full" and stores nothing.
C1_SevenAddsThenFull ==
    /\ Len(gdt_calls) <= TableLen
    /\ \A k \in 1..Len(gdt_calls) :
          IF k <= 7
          THEN /\ gdt_calls[k].returned
               /\ gdt_calls[k].index = k
               /\ table[k] = gdt_calls[k].entry
          ELSE ~gdt_calls[k].returned /\ gdt_panic = GdtFull
    /\ table[0] = {}
    /\ \A i \in 1..(TableLen - 1) : i > Len(gdt_calls) => table[i] = {}

C1_Witness ==
    /\ Len(gdt_calls) = 8
    /\ ~gdt_calls[8].returned
    /\ gdt_panic = GdtFull
    /\ \A k \in 1..7 : gdt_calls[k].index = k /\ table[k] = gdt_calls[k].entry
    /\ \E j, k \in 1..7 : table[j] # table[k]

\* C2: kernel_code_segment()'s value has bits 40, 41, 43, 44, 47, 54 and 55 set,
\* bits 0-15 equal to 0xFFFF and bits 48-51 equal to 0b1111.
C2_KernelCodeBits ==
    desc_kind = "kernel_code_segment" =>
        /\ {40, 41, 43, 44, 47, 54, 55} \subseteq desc
        /\ GetBits(desc, 0, 16) = BitsOf(65535)
        /\ GetBits(desc, 48, 52) = BitsOf(15)

C2_Witness == desc_kind = "kernel_code_segment" /\ 43 \in desc

\* C3: user_data_segment()'s value has accessed (40), read/write (41), user-segment
\* (44), present (47), size (54) and granularity (55) set, limit bits 0-15 = 0xFFFF
\* and 48-51 = 0b1111, both ring-3 bits (45, 46) set and executable (43) clear.
C3_UserDataBits ==
    desc_kind = "user_data_segment" =>
        /\ {40, 41, 44, 47, 54, 55} \subseteq desc
        /\ GetBits(desc, 0, 16) = BitsOf(65535)
        /\ GetBits(desc, 48, 52) = BitsOf(15)
        /\ {45, 46} \subseteq desc
        /\ 43 \notin desc

\* C3 without the size bit, which user_data_segment() does not set.
C3_UserDataBitsNoSize ==
    desc_kind = "user_data_segment" =>
        /\ {40, 41, 44, 47, 55} \subseteq desc
        /\ GetBits(desc, 0, 16) = BitsOf(65535)
        /\ GetBits(desc, 48, 52) = BitsOf(15)
        /\ {45, 46} \subseteq desc
        /\ 43 \notin desc
        /\ 54 \notin desc

C3_Witness == desc_kind = "user_data_segment" /\ {45, 46} \subseteq desc

\* C4: for a TaskStateSegment address A of at most 32 bits, tss_segment puts A's
\* bits 0-23 in descriptor bits 16-39 and A's bits 24-31 in bits 56-63, so
\* (bits 56-63 << 24) | bits 16-39 is A; the limit bits 0-15 and the flag bits
\* 40-55 are the same for every A.
C4_TssBaseRoundTrip ==
    (desc_kind = "tss_segment" /\ desc_arg \subseteq 0..31) =>
        /\ GetBits(desc, 16, 40) = GetBits(desc_arg, 0, 24)
        /\ GetBits(desc, 56, 64) = GetBits(desc_arg, 24, 32)
        /\ BitOr(Shl(GetBits(desc, 56, 64), 24), GetBits(desc, 16, 40)) = desc_arg
        /\ GetBits(desc, 0, 16) = BitsOf(TssSize - 1)
        /\ Shl(GetBits(desc, 40, 56), 40) = tss_flags

C4_Witness ==
    /\ desc_kind = "tss_segment"
    /\ desc_arg = {0, 15, 16, 23, 24, 31}
    /\ {16, 39, 56, 63} \subseteq desc

\* The sums start_addr + len of the entries, modulo 2^64 and as mathematical sums.
WrappedSums == {WrapAdd(memory_map[i].start_addr, memory_map[i].len) : i \in 1..Len(memory_map)}

MathSums == {RegionEnd(memory_map[i]) : i \in 1..Len(memory_map)}

IsGreatest(m, S) == m \in S /\ \A x \in S : LessEq(x, m)

\* C5 as stated: once bootloader_main has computed max_phys_addr, the memory map
\* is not empty and max_phys_addr is the greatest of the mathematical sums
\* start_i + len_i, whatever the 64-bit values and the order of the entries.
C5_MaxOfMathSums ==
    pc = "frame_allocator" => Len(memory_map) > 0 /\ IsGreatest(max_phys_addr, MathSums)

\* C5, amended: max_phys_addr is the greatest of the sums start_i + len_i taken in
\* 64-bit arithmetic, whatever the order of the entries: the greatest mathematical
\* sum when no sum reaches 2^64; a sum that reaches 2^64 is a panic in a build with
\* overflow checks and counts modulo 2^64 in a build without. An empty memory
\* map is a panic.
C5_MaxOfU64Sums ==
    /\ pc = "frame_allocator" =>
          /\ Len(memory_map) > 0
          /\ IsGreatest(max_phys_addr, WrappedSums)
          /\ (\A x \in MathSums : 64 \notin x) => IsGreatest(max_phys_addr, MathSums)
          /\ overflow_checks => \A x \in MathSums : 64 \notin x
    /\ (Len(memory_map) = 0 /\ pc # "max_phys_addr") =>
          pc \in {"panic", "halt"} /\ panic_msg = "no physical memory regions found"

C5_Witness ==
    /\ pc = "frame_allocator"
    /\ Len(memory_map) = 2
    /\ Less(RegionEnd(memory_map[2]), RegionEnd(memory_map[1]))
    /\ max_phys_addr = RegionEnd(memory_map[1])

KernelEnd == MathAdd(kernel_start, kernel_size)

\* [f, f + 4 KiB) and [kernel_start, kernel_start + kernel_size) do not intersect.
ClearOfKernel(f) ==
    \/ LessEq(MathAdd(f, {Size4KiBShift}), kernel_start)
    \/ LessEq(KernelEnd, f)
    \/ kernel_size = {}

LoopCompleted == pc \in {"init_logger", "create_page_tables", "detect_rsdp", "load_kernel",
                         "handoff"}

\* The i-th 2 MiB frame from 1 GiB up.
FrameFromGiB(i) == MathAdd(FirstGiB, Shl(BitsOf(i - 1), Size2MiBShift))

C8_EndsInHandoffOrHalt == ~Running => pc \in {"handoff", "halt"}

\* The rest of C8: a panic is followed by the halt loop, the halt loop is never
\* left, and the hand-off is never reached once a panic has occurred.
C8_HaltIsFinal ==
    [][(pc = "panic" => pc' = "halt") /\ (pc = "halt" => pc' = "halt")
       /\ (pc = "fault" => pc' = "fault")]_vars

\* C9: when the scan finds nothing, detect_rsdp returns the absent value and the
\* next step is the hand-off, with rsdp_addr absent; when the scan succeeds,
\* rsdp_addr is the physical start address the scan reported.
C9_RsdpAbsentOrExact ==
    [][/\ pc = "detect_rsdp" =>
             /\ pc' = "load_kernel"
             /\ rsdp_addr' = IF rsdp_scan'.found
                             THEN [some |-> TRUE, addr |-> rsdp_scan'.physical_start]
                             ELSE [some |-> FALSE, addr |-> {}]
       /\ pc = "load_kernel" => pc' = "handoff" /\ rsdp_addr' = rsdp_addr]_vars

C9_Witness ==
    /\ pc = "handoff"
    /\ ~rsdp_scan.found
    /\ ~rsdp_addr.some

\* C10: every page-table frame written through the zero-offset view (a table
\* created in the loop, the new level 4 table of the kernel) was mapped by the
\* hierarchy of the loader when it was written.
C10_TableWritesCovered == \A i \in 1..Len(table_writes) : table_writes[i].covered

\* The number of add_entry calls that returned.
SuccessfulAdds == Cardinality({k \in 1..Len(gdt_calls) : gdt_calls[k].returned})

\* C11: after any sequence of add_entry calls on a table made by new(), slot 0 is
\* the null descriptor, next_free is between 1 and 8 and is 1 plus the number of
\* calls that returned, every slot at or above next_free is 0; a call that returns
\* changes the slot at the old next_free to its entry and no other slot, and a
\* call that panics changes neither the table nor next_free.
C11_CursorAndSlots ==
    /\ [](/\ table[0] = null_descriptor
          /\ next_free \in 1..TableLen
          /\ next_free = 1 + SuccessfulAdds
          /\ \A i \in next_free..(TableLen - 1) : table[i] = {})
    /\ [][LET call == gdt_calls'[Len(gdt_calls')]
          IN  IF call.returned
              THEN /\ next_free' = next_free + 1
                   /\ table'[next_free] = call.entry
                   /\ \A i \in 0..(TableLen - 1) : i # next_free => table'[i] = table[i]
              ELSE table' = table /\ next_free' = next_free]_vars

C11_Witness ==
    /\ Len(gdt_calls) = 3
    /\ next_free = 4
    /\ table[1] = user_data_segment
    /\ table[3] = kernel_code_segment
    /\ \A i \in 4..(TableLen - 1) : table[i] = {}

====
